---- MODULE Spec2Model ----
(***************************************************************************)
(* State-machine model of the FSMC display interface (src/lib/src/lib.rs): *)
(* the address constants, the Timing value type, FsmcLcd::new,             *)
(* write_command / write_data, release, and the WriteOnlyDataCommand       *)
(* dispatcher send_commands / send_data.                                   *)
(*                                                                         *)
(* The external bus is observed as the sequence of 16-bit volatile stores  *)
(* the CPU performs (variable bus).  The FSMC peripheral is observed as    *)
(* its RCC clock-enable bit and the three bank-1 registers the constructor *)
(* programs (BCR1, BTR1, BWTR1), each a record of the fields the source    *)
(* names.  Ownership of the GPIO line handles follows Rust's move          *)
(* semantics: a handle is either in the caller's hands, inside a live      *)
(* FsmcLcd value, or gone (dropped with the value that owned it).          *)
(***************************************************************************)
EXTENDS Integers, Sequences, FiniteSets

----------------------------------------------------------------------------
(* Bounds of the model *)

\* most stores recorded on the bus trace
MaxBus == 3
\* longest payload handed to the dispatcher
MaxLen == 2
\* most FsmcLcd values ever constructed in one behaviour
MaxNew == 2
\* number of GPIO line handles the caller starts with
NumPins == 40

----------------------------------------------------------------------------
(* Address constants, lib.rs 38-61 *)

\* 0x6000_0000
BASE_ADDRESS == 1610612736

\* 0x3fffffe, the literal OR-ed in by make_data_address
ADDRESS_SIGNALS == 67108862

\* bitwise OR of two naturals (Rust's | on usize)
RECURSIVE BitOr(_, _)
BitOr(a, b) ==
    IF a = 0 THEN b
    ELSE IF b = 0 THEN a
    ELSE (IF (a % 2) + (b % 2) > 0 THEN 1 ELSE 0) + 2 * BitOr(a \div 2, b \div 2)

\* a plausible slip: adding the mask instead of OR-ing it
make_data_address_add(base) == base + ADDRESS_SIGNALS

make_data_address(base) == BitOr(base, ADDRESS_SIGNALS)

COMMAND_ADDRESS == BASE_ADDRESS

DATA_ADDRESS == make_data_address(BASE_ADDRESS)

----------------------------------------------------------------------------
(* Timing, lib.rs 63-127 *)

BUS_TURNAROUND_MAX == 15
DATA_MIN == 1
ADDRESS_HOLD_MIN == 1
ADDRESS_HOLD_MAX == 15
ADDRESS_SETUP_MAX == 15
\* largest value of the u8 field `data`
DATA_MAX == 255

Accmod == {"A", "B", "C", "D"}

Timing_new(access_mode, bus_turnaround, data, address_hold, address_setup) ==
    [access_mode |-> access_mode,
     bus_turnaround |-> bus_turnaround,
     data |-> data,
     address_hold |-> address_hold,
     address_setup |-> address_setup]

\* a default taken from the example's fast settings, hold below its minimum
Timing_default_fast ==
    [access_mode |-> "C", bus_turnaround |-> 1, data |-> 4,
     address_hold |-> 0, address_setup |-> 0]

Timing_default ==
    [access_mode |-> "C",
     bus_turnaround |-> BUS_TURNAROUND_MAX,
     data |-> 255,
     address_hold |-> ADDRESS_HOLD_MAX,
     address_setup |-> ADDRESS_SETUP_MAX]

----------------------------------------------------------------------------
(* FSMC bank-1 registers as FsmcLcd::new programs them, lib.rs 245-293.    *)
(* `write(|w| ...)` starts from the register type's default value and      *)
(* stores the result, so nothing of the previous contents survives.  A     *)
(* field setter keeps the low bits that fit the field: 4 bits for busturn, *)
(* addhld and addset (documented 0-15), 8 bits for datast.                 *)

\* bank control register written with extended mode left off
BcrWrite_noextmod ==
    [cburstrw |-> FALSE, cpsize |-> "NOBURSTSPLIT", asyncwait |-> FALSE,
     extmod |-> FALSE, waiten |-> FALSE, wren |-> TRUE,
     waitcfg |-> "BEFOREWAITSTATE", waitpol |-> "ACTIVELOW", bursten |-> FALSE,
     faccen |-> TRUE, mwid |-> "BITS16", mtyp |-> "FLASH", muxen |-> FALSE,
     mbken |-> TRUE]

BcrWrite ==
    [cburstrw |-> FALSE,
     cpsize |-> "NOBURSTSPLIT",
     asyncwait |-> FALSE,
     extmod |-> TRUE,
     waiten |-> FALSE,
     wren |-> TRUE,
     waitcfg |-> "BEFOREWAITSTATE",
     waitpol |-> "ACTIVELOW",
     bursten |-> FALSE,
     faccen |-> TRUE,
     mwid |-> "BITS16",
     mtyp |-> "FLASH",
     muxen |-> FALSE,
     mbken |-> TRUE]

\* the closure of fsmc.btr(0).write / fsmc.bwtr(0).write applied to timing t
TimingWrite(t) ==
    [accmod |-> t.access_mode,
     busturn |-> t.bus_turnaround % (BUS_TURNAROUND_MAX + 1),
     datast |-> t.data % (DATA_MAX + 1),
     addhld |-> t.address_hold % (ADDRESS_HOLD_MAX + 1),
     addset |-> t.address_setup % (ADDRESS_SETUP_MAX + 1)]

\* both timing registers programmed from the write timing
NewRegs_crossed(read_timing, write_timing) ==
    [bcr |-> BcrWrite, btr |-> TimingWrite(write_timing), bwtr |-> TimingWrite(write_timing)]

\* register contents FsmcLcd::new leaves behind
NewRegs(read_timing, write_timing) ==
    [bcr |-> BcrWrite,
     btr |-> TimingWrite(read_timing),
     bwtr |-> TimingWrite(write_timing)]

----------------------------------------------------------------------------
(* Line handles, lib.rs 142-171 and 227-237 *)

Pins == 1..NumPins

\* the 20 handles of one constructor call, in argument order, starting at `first`
Wiring(first) ==
    [cs |-> first, rd |-> first + 1, rw |-> first + 2, rs |-> first + 3,
     data_pins |-> [i \in 1..16 |-> first + 3 + i]]

\* the handles a wiring (or an FsmcLcd value) holds
PinsOf(w) == {w.cs, w.rd, w.rw, w.rs} \cup {w.data_pins[i] : i \in 1..16}

\* every position holds a different handle (a handle is moved, never copied)
Distinct(w) == Cardinality(PinsOf(w)) = 20

----------------------------------------------------------------------------
(* Bus primitives, lib.rs 327-347 *)

\* a plain (non-volatile) store, which the compiler may merge with a store
\* to the same address right before it
write_volatile_merged(trace, addr, value) ==
    IF trace # <<>> /\ trace[Len(trace)].addr = addr
    THEN [trace EXCEPT ![Len(trace)] = [addr |-> addr, value |-> value % 65536]]
    ELSE Append(trace, [addr |-> addr, value |-> value % 65536])

\* core::ptr::write_volatile(addr as *mut u16, value): one 16-bit store
write_volatile(trace, addr, value) ==
    Append(trace, [addr |-> addr, value |-> value % 65536])

\* write_command storing to the data address
write_command_wrongaddr(trace, value) == write_volatile(trace, DATA_ADDRESS, value)

write_command(trace, value) == write_volatile(trace, COMMAND_ADDRESS, value)

write_data(trace, value) == write_volatile(trace, DATA_ADDRESS, value)

----------------------------------------------------------------------------
(* Payload dispatcher, lib.rs 414-476 *)

Fmt8 == {"U8", "U8Iter"}
Fmt16 == {"U16", "U16BE", "U16LE", "U16BEIter", "U16LEIter"}
\* stands for any DataFormat variant the match does not name
Unsupported == "Unsupported"

\* sign extension instead of zero extension
u16_from_signext(item) == IF item >= 128 THEN 65280 + item ELSE item

\* u16::from(u8): the word whose high byte is 0 and whose low byte is item
u16_from(item) == 0 * 256 + (item % 256)

\* exchange of the two bytes of a 16-bit word
swap_bytes(item) == (item % 256) * 256 + (item \div 256)

\* `for item in items { self.write_command(u16::from(*item)) }`
RECURSIVE CommandsU8(_, _)
CommandsU8(trace, items) ==
    IF items = <<>> THEN trace
    ELSE CommandsU8(write_command(trace, u16_from(Head(items))), Tail(items))

\* `for item in items { self.write_command(*item) }`
RECURSIVE CommandsU16(_, _)
CommandsU16(trace, items) ==
    IF items = <<>> THEN trace
    ELSE CommandsU16(write_command(trace, Head(items)), Tail(items))

\* `for item in items { self.write_data(u16::from(*item)) }`
RECURSIVE DataU8(_, _)
DataU8(trace, items) ==
    IF items = <<>> THEN trace
    ELSE DataU8(write_data(trace, u16_from(Head(items))), Tail(items))

\* `for item in items { self.write_data(*item) }`
RECURSIVE DataU16(_, _)
DataU16(trace, items) ==
    IF items = <<>> THEN trace
    ELSE DataU16(write_data(trace, Head(items)), Tail(items))

\* the loop of the big-endian arms, had it converted to bus byte order
RECURSIVE DataU16Swapped(_, _)
DataU16Swapped(trace, items) ==
    IF items = <<>> THEN trace
    ELSE DataU16Swapped(write_data(trace, swap_bytes(Head(items))), Tail(items))

\* send_commands whose fall-through arm forwards the payload as bytes
send_commands_lenient(trace, cmd) ==
    CASE cmd.fmt \in {"U8", "U8Iter"} -> [bus |-> CommandsU8(trace, cmd.items), ret |-> "Ok"]
      [] cmd.fmt \in Fmt16 -> [bus |-> CommandsU16(trace, cmd.items), ret |-> "Ok"]
      [] OTHER -> [bus |-> CommandsU8(trace, cmd.items), ret |-> "DataFormatNotImplemented"]

\* the trace after the call and the value the call returns
send_commands(trace, cmd) ==
    CASE cmd.fmt = "U8" -> [bus |-> CommandsU8(trace, cmd.items), ret |-> "Ok"]
      [] cmd.fmt = "U16" -> [bus |-> CommandsU16(trace, cmd.items), ret |-> "Ok"]
      [] cmd.fmt \in {"U16BE", "U16LE"} ->
            [bus |-> CommandsU16(trace, cmd.items), ret |-> "Ok"]
      [] cmd.fmt = "U8Iter" -> [bus |-> CommandsU8(trace, cmd.items), ret |-> "Ok"]
      [] cmd.fmt \in {"U16BEIter", "U16LEIter"} ->
            [bus |-> CommandsU16(trace, cmd.items), ret |-> "Ok"]
      [] OTHER -> [bus |-> trace, ret |-> "DataFormatNotImplemented"]

\* send_data converting big-endian payloads
send_data_swapping(trace, buf) ==
    CASE buf.fmt \in {"U8", "U8Iter"} -> [bus |-> DataU8(trace, buf.items), ret |-> "Ok"]
      [] buf.fmt \in {"U16", "U16LE", "U16LEIter"} ->
            [bus |-> DataU16(trace, buf.items), ret |-> "Ok"]
      [] buf.fmt \in {"U16BE", "U16BEIter"} ->
            [bus |-> DataU16Swapped(trace, buf.items), ret |-> "Ok"]
      [] OTHER -> [bus |-> trace, ret |-> "DataFormatNotImplemented"]

\* send_data whose U8Iter arm was copied from send_commands unchanged
send_data_pasted(trace, buf) ==
    CASE buf.fmt = "U8" -> [bus |-> DataU8(trace, buf.items), ret |-> "Ok"]
      [] buf.fmt \in Fmt16 -> [bus |-> DataU16(trace, buf.items), ret |-> "Ok"]
      [] buf.fmt = "U8Iter" -> [bus |-> CommandsU8(trace, buf.items), ret |-> "Ok"]
      [] OTHER -> [bus |-> trace, ret |-> "DataFormatNotImplemented"]

send_data(trace, buf) ==
    CASE buf.fmt = "U8" -> [bus |-> DataU8(trace, buf.items), ret |-> "Ok"]
      [] buf.fmt = "U16" -> [bus |-> DataU16(trace, buf.items), ret |-> "Ok"]
      [] buf.fmt \in {"U16BE", "U16LE"} ->
            [bus |-> DataU16(trace, buf.items), ret |-> "Ok"]
      [] buf.fmt = "U8Iter" -> [bus |-> DataU8(trace, buf.items), ret |-> "Ok"]
      [] buf.fmt \in {"U16BEIter", "U16LEIter"} ->
            [bus |-> DataU16(trace, buf.items), ret |-> "Ok"]
      [] OTHER -> [bus |-> trace, ret |-> "DataFormatNotImplemented"]

----------------------------------------------------------------------------
(* State *)

VARIABLES
    fsmc_en,   \* RCC clock-enable bit of the FSMC peripheral
    bcr,       \* FSMC_BCR1 contents
    btr,       \* FSMC_BTR1 contents (read timing)
    bwtr,      \* FSMC_BWTR1 contents (write timing)
    caller,    \* line handles currently in the caller's hands
    af,        \* lines routed to alternate function 12, push-pull output
    state,     \* per FsmcLcd value: "unborn", "alive", "released", "dropped"
    self,      \* per FsmcLcd value: its fields cs, rd, rw, rs, data_pins
    given,     \* per FsmcLcd value: the handles its constructor call was given
    bus,       \* every 16-bit store performed on the external bus, in order
    derived,   \* a base address and the data address derived from it
    last       \* the operation performed last, with its arguments and result

vars == <<fsmc_en, bcr, btr, bwtr, caller, af, state, self, given, bus, derived, last>>

periph == <<fsmc_en, bcr, btr, bwtr>>
lines == <<caller, af, state, self, given>>

Ids == 1..MaxNew

\* placeholder for the fields of a value that does not exist
NoLcd == [cs |-> 0, rd |-> 0, rw |-> 0, rs |-> 0, data_pins |-> <<>>]

Alive == {c \in Ids : state[c] = "alive"}

\* register contents found before the first construction
PriorRegs ==
    {[bcr |-> BcrWrite, btr |-> TimingWrite(Timing_default),
      bwtr |-> TimingWrite(Timing_default)],
     [bcr |-> [BcrWrite EXCEPT !.mbken = FALSE, !.extmod = FALSE, !.muxen = TRUE,
                               !.mwid = "BITS8", !.mtyp = "SRAM"],
      btr |-> TimingWrite(Timing_new("A", 0, 0, 0, 0)),
      bwtr |-> TimingWrite(Timing_new("D", 3, 7, 2, 1))]}

InitWith(priors) ==
    /\ fsmc_en = FALSE
    /\ \E r \in priors : bcr = r.bcr /\ btr = r.btr /\ bwtr = r.bwtr
    /\ caller = Pins
    /\ af = {}
    /\ state = [c \in Ids |-> "unborn"]
    /\ self = [c \in Ids |-> NoLcd]
    /\ given = [c \in Ids |-> NoLcd]
    /\ bus = <<>>
    /\ derived = [base |-> BASE_ADDRESS, data |-> DATA_ADDRESS]
    /\ last = [op |-> "none"]

----------------------------------------------------------------------------
(* Operations *)

\* the value returned by release with the two strobe handles exchanged
release_ret_swapped(lcd) ==
    [cs |-> lcd.cs, rd |-> lcd.rw, rw |-> lcd.rd, rs |-> lcd.rs,
     data_pins |-> lcd.data_pins]

\* (self.cs, self.rd, self.rw, self.rs, self.data_pins)
release_ret(lcd) ==
    [cs |-> lcd.cs, rd |-> lcd.rd, rw |-> lcd.rw, rs |-> lcd.rs,
     data_pins |-> lcd.data_pins]

\* FsmcLcd::new(cs, rd, rw, rs, data_pins, &read_timing, &write_timing)
New(w, read_timing, write_timing) ==
    /\ \E c \in Ids :
        /\ state[c] = "unborn"
        /\ \A d \in Ids : d < c => state[d] # "unborn"
        \* the arguments are moved in: the caller must hold each handle
        /\ PinsOf(w) \subseteq caller
        /\ Distinct(w)
        /\ caller' = caller \ PinsOf(w)
        \* FSMC::enable_and_reset()
        /\ fsmc_en' = TRUE
        /\ LET r == NewRegs(read_timing, write_timing)
           IN /\ bcr' = r.bcr
              /\ btr' = r.btr
              /\ bwtr' = r.bwtr
        \* set_as_af(12, OutputPushPull) on all 20 lines
        /\ af' = af \cup PinsOf(w)
        /\ state' = [state EXCEPT ![c] = "alive"]
        /\ self' = [self EXCEPT ![c] = [cs |-> w.cs, rd |-> w.rd, rw |-> w.rw,
                                        rs |-> w.rs, data_pins |-> w.data_pins]]
        /\ given' = [given EXCEPT ![c] = w]
        /\ last' = [op |-> "new", ctrl |-> c, read_timing |-> read_timing,
                    write_timing |-> write_timing]
    /\ UNCHANGED <<bus, derived>>

\* lcd.write_command(value)
WriteCommand(c, value) ==
    /\ state[c] = "alive"
    /\ Len(bus) < MaxBus
    /\ bus' = write_command(bus, value)
    /\ last' = [op |-> "write_command", ctrl |-> c, value |-> value, pre |-> Len(bus)]
    /\ UNCHANGED <<periph, lines, derived>>

\* lcd.write_data(value)
WriteData(c, value) ==
    /\ state[c] = "alive"
    /\ Len(bus) < MaxBus
    /\ bus' = write_data(bus, value)
    /\ last' = [op |-> "write_data", ctrl |-> c, value |-> value, pre |-> Len(bus)]
    /\ UNCHANGED <<periph, lines, derived>>

\* lcd.send_commands(cmd)
SendCommands(c, cmd) ==
    /\ state[c] = "alive"
    /\ Len(bus) + Len(cmd.items) <= MaxBus
    /\ LET r == send_commands(bus, cmd)
       IN /\ bus' = r.bus
          /\ last' = [op |-> "send_commands", ctrl |-> c, payload |-> cmd,
                      pre |-> Len(bus), ret |-> r.ret]
    /\ UNCHANGED <<periph, lines, derived>>

\* lcd.send_data(buf)
SendData(c, buf) ==
    /\ state[c] = "alive"
    /\ Len(bus) + Len(buf.items) <= MaxBus
    /\ LET r == send_data(bus, buf)
       IN /\ bus' = r.bus
          /\ last' = [op |-> "send_data", ctrl |-> c, payload |-> buf,
                      pre |-> Len(bus), ret |-> r.ret]
    /\ UNCHANGED <<periph, lines, derived>>

\* lcd.release(): consumes the value, disables the clock, hands the lines back
Release(c) ==
    /\ state[c] = "alive"
    /\ fsmc_en' = FALSE
    /\ LET ret == release_ret(self[c])
       IN /\ caller' = caller \cup PinsOf(ret)
          /\ last' = [op |-> "release", ctrl |-> c, ret |-> ret]
    /\ state' = [state EXCEPT ![c] = "released"]
    /\ self' = [self EXCEPT ![c] = NoLcd]
    /\ UNCHANGED <<bcr, btr, bwtr, af, given, bus, derived>>

\* the value goes out of scope: FsmcLcd has no Drop impl, so its handles go
\* with it and the peripheral is left as it is
Drop(c) ==
    /\ state[c] = "alive"
    /\ state' = [state EXCEPT ![c] = "dropped"]
    /\ self' = [self EXCEPT ![c] = NoLcd]
    /\ last' = [op |-> "drop", ctrl |-> c]
    /\ UNCHANGED <<periph, caller, af, given, bus, derived>>

\* const evaluation of make_data_address for a bank base
ConstEval(base) ==
    /\ derived' = [base |-> base, data |-> make_data_address(base)]
    /\ UNCHANGED <<periph, lines, bus, last>>

\* Timing::default(): a pure function, callable at any time
TimingDefault ==
    /\ last' = [op |-> "Timing::default", ret |-> Timing_default]
    /\ UNCHANGED <<periph, lines, bus, derived>>

----------------------------------------------------------------------------
(* Inputs *)

\* 8-bit elements: 0x08, 0x36, 0xA5
U8Samples == {8, 54, 165}

\* 16-bit elements: 0x002A, 0xA536
U16Samples == {42, 42294}

SeqsUpTo(S, n) == UNION {[1..k -> S] : k \in 0..n}

Payloads ==
    {[fmt |-> f, items |-> s] : f \in Fmt8, s \in SeqsUpTo(U8Samples, MaxLen)}
    \cup {[fmt |-> f, items |-> s] : f \in Fmt16, s \in SeqsUpTo(U16Samples, MaxLen)}
    \cup {[fmt |-> Unsupported, items |-> s] : s \in SeqsUpTo({54}, MaxLen)}

----------------------------------------------------------------------------
(* Specification of the bus traffic: one controller constructed over one   *)
(* wiring with the default timings, then any sequence of primitive writes  *)
(* and payloads of every shape.                                            *)

Init == InitWith({[bcr |-> BcrWrite, btr |-> TimingWrite(Timing_default),
                   bwtr |-> TimingWrite(Timing_default)]})

Next ==
    \/ New(Wiring(1), Timing_default, Timing_default)
    \/ \E c \in Ids, v \in U16Samples : WriteCommand(c, v)
    \/ \E c \in Ids, v \in U16Samples : WriteData(c, v)
    \/ \E c \in Ids, p \in Payloads : SendCommands(c, p)
    \/ \E c \in Ids, p \in Payloads : SendData(c, p)

Spec == Init /\ [][Next]_vars

----------------------------------------------------------------------------
(* Properties of the bus traffic, checked under Spec *)

IsSend == last.op \in {"send_commands", "send_data"}

\* the stores the last call appended to the trace
Written == SubSeq(bus, last.pre + 1, Len(bus))

\* C1: a payload of 8-bit elements handed to send_commands, as a slice (U8)
\* or as an iterator (U8Iter), produces one store per element, in order, each
\* to the command address, each carrying the element in its low byte and 0 in
\* its high byte, and the call returns Ok.
C1_CommandsZeroExtended ==
    (last.op = "send_commands" /\ last.payload.fmt \in {"U8", "U8Iter"}) =>
        /\ last.ret = "Ok"
        /\ Len(Written) = Len(last.payload.items)
        /\ \A k \in 1..Len(last.payload.items) :
            /\ Written[k].addr = COMMAND_ADDRESS
            /\ Written[k].value % 256 = last.payload.items[k]
            /\ Written[k].value \div 256 = 0

\* a two-element iterator whose first byte has its top bit set was sent
C1_Witness ==
    /\ last.op = "send_commands"
    /\ last.payload = [fmt |-> "U8Iter", items |-> <<165, 54>>]
    /\ last.ret = "Ok"
    /\ last.pre = 1
    /\ Len(bus) = 3

\* C2: a payload of 16-bit elements handed to send_data is written value for
\* value, in order, to the data address, whatever its endianness tag: no tag
\* makes the bytes of an element change places.
C2_DataWrittenAsIs ==
    (last.op = "send_data" /\ last.payload.fmt \in
        {"U16", "U16BE", "U16LE", "U16BEIter", "U16LEIter"}) =>
        /\ last.ret = "Ok"
        /\ Written = [k \in 1..Len(last.payload.items) |->
                        [addr |-> DATA_ADDRESS, value |-> last.payload.items[k]]]

\* a big-endian payload whose elements have two different bytes was sent
C2_Witness ==
    /\ last.op = "send_data"
    /\ last.payload = [fmt |-> "U16BE", items |-> <<42294, 42>>]
    /\ Len(bus) = last.pre + 2
    /\ bus[Len(bus)].value = 42

\* C3: a payload of a shape outside the seven supported ones is answered with
\* DataFormatNotImplemented and leaves the bus trace as it was.
C3_UnsupportedRejected ==
    (IsSend /\ last.payload.fmt \notin
        {"U8", "U16", "U16BE", "U16LE", "U8Iter", "U16BEIter", "U16LEIter"}) =>
        /\ last.ret = "DataFormatNotImplemented"
        /\ Len(bus) = last.pre
        /\ Written = <<>>

\* an unsupported, non-empty payload was handed to send_commands after
\* earlier traffic
C3_Witness ==
    /\ last.op = "send_commands"
    /\ last.payload.fmt = Unsupported
    /\ Len(last.payload.items) = 2
    /\ last.ret = "DataFormatNotImplemented"
    /\ Len(bus) = 1

\* the stores one dispatcher call is expected to make
ExpectedWrites(call) ==
    IF call.payload.fmt \in
        {"U8", "U16", "U16BE", "U16LE", "U8Iter", "U16BEIter", "U16LEIter"}
    THEN [k \in 1..Len(call.payload.items) |->
            [addr |-> IF call.op = "send_commands" THEN COMMAND_ADDRESS ELSE DATA_ADDRESS,
             value |-> call.payload.items[k]]]
    ELSE <<>>

\* C4: the bus trace is the concatenation of the per-call write sequences in
\* call order: a dispatcher call appends its own writes after everything
\* written before, and nothing else is appended or removed.  In particular
\* send_commands(U8 [0x36]) followed, on a fresh bus, by send_data(U8 [0x08])
\* leaves exactly (command address, 0x0036), (data address, 0x0008).
C4_TraceIsConcatenation ==
    [][/\ (last'.op \in {"send_commands", "send_data"} /\ (last' # last \/ bus' # bus)) =>
            bus' = bus \o ExpectedWrites(last')
       /\ (last'.op \notin {"send_commands", "send_data", "write_command", "write_data"}) =>
            bus' = bus
       /\ (/\ last.op = "send_commands"
           /\ last.payload = [fmt |-> "U8", items |-> <<54>>]
           /\ last.pre = 0
           /\ last'.op = "send_data"
           /\ last'.payload = [fmt |-> "U8", items |-> <<8>>]) =>
            bus' = <<[addr |-> COMMAND_ADDRESS, value |-> 54],
                     [addr |-> DATA_ADDRESS, value |-> 8]>>
      ]_vars

\* the scenario's second call has returned
C4_Witness ==
    /\ last.op = "send_data"
    /\ last.payload = [fmt |-> "U8", items |-> <<8>>]
    /\ last.pre = 1
    /\ bus = <<[addr |-> COMMAND_ADDRESS, value |-> 54],
               [addr |-> DATA_ADDRESS, value |-> 8]>>

\* C5: write_command(v) appends exactly one store of v to 0x6000_0000 and
\* write_data(v) exactly one store of v to the data address; both leave the
\* peripheral registers, the clock and the line handles untouched.
C5_OneStorePerPrimitive ==
    [][/\ (last'.op = "write_command" /\ (last' # last \/ bus' # bus)) =>
            /\ bus' = Append(bus, [addr |-> 1610612736, value |-> last'.value])
            /\ UNCHANGED <<periph, lines>>
       /\ (last'.op = "write_data" /\ (last' # last \/ bus' # bus)) =>
            /\ bus' = Append(bus, [addr |-> DATA_ADDRESS, value |-> last'.value])
            /\ UNCHANGED <<periph, lines>>
      ]_vars

\* write_command(0x2A) has stored (0x6000_0000, 0x002A)
C5_Witness ==
    /\ last.op = "write_command"
    /\ last.value = 42
    /\ Len(bus) = last.pre + 1
    /\ bus[Len(bus)] = [addr |-> 1610612736, value |-> 42]

----------------------------------------------------------------------------
(* Specification of the address derivation: make_data_address applied to   *)
(* bank bases and to addresses with low bits already set.                  *)

\* 2^26, the size of one sub-bank
SUB_BANK == 67108864

Bases ==
    {k * SUB_BANK + low : k \in 0..31,
                          low \in {0, 1, 2, 44739242, 67108862, 67108863}}

NextAddr == \E base \in Bases : ConstEval(base)

SpecAddr == Init /\ [][NextAddr]_vars

\* bit i of the natural x
Bit(x, i) == (x \div (2 ^ i)) % 2

\* C6: the data address derived from the command address 0x6000_0000 is
\* 0x63FF_FFFE; it differs from the command address in exactly bits 1 to 25
\* and agrees with it in bit 0 and in every bit from 26 up.  For any base,
\* the derived address keeps bits 26 and 27 of the base.
C6_DataAddress ==
    /\ (derived.base = 1610612736) =>
        /\ derived.data = 1677721598
        /\ \A i \in 0..30 : (Bit(derived.data, i) # Bit(derived.base, i)) <=> (i \in 1..25)
    /\ Bit(derived.data, 26) = Bit(derived.base, 26)
    /\ Bit(derived.data, 27) = Bit(derived.base, 27)

\* the derivation was applied to 0x6C00_0002 (sub-bank 4, a low bit set)
C6_Witness ==
    /\ derived.base = 1811939330
    /\ derived.data = 1879048190
    /\ Bit(derived.base, 26) = 1
    /\ Bit(derived.base, 27) = 1

----------------------------------------------------------------------------
(* Specification of the register programming: construction with timings    *)
(* in and out of the documented ranges, over registers with varying prior  *)
(* contents, released and constructed again.                               *)

\* (bus_turnaround, data, address_hold, address_setup): the range minima and
\* maxima, the example's setting (hold 0), and values past the ranges
TimingFields ==
    {<<0, 1, 1, 15>>, <<15, 255, 15, 0>>, <<7, 4, 2, 1>>,
     <<1, 4, 0, 0>>, <<16, 0, 16, 0>>, <<200, 255, 255, 16>>}

Timings ==
    {Timing_new(m, q[1], q[2], q[3], q[4]) : m \in Accmod, q \in TimingFields}

InitCfg == InitWith(PriorRegs)

NextCfg ==
    \/ \E rt \in Timings, wt \in Timings : New(Wiring(1), rt, wt)
    \/ \E c \in Ids : Release(c)
    \/ TimingDefault

SpecCfg == InitCfg /\ [][NextCfg]_vars

\* the documented ranges of the Timing fields
InRange(t) ==
    /\ t.access_mode \in {"A", "B", "C", "D"}
    /\ t.bus_turnaround \in 0..15
    /\ t.data \in 1..255
    /\ t.address_hold \in 1..15
    /\ t.address_setup \in 0..15

\* the five fields of a timing register equal the five fields of a Timing
Holds(reg, t) ==
    /\ reg.accmod = t.access_mode
    /\ reg.busturn = t.bus_turnaround
    /\ reg.datast = t.data
    /\ reg.addhld = t.address_hold
    /\ reg.addset = t.address_setup

\* C7: after FsmcLcd::new with read and write timings inside the documented
\* ranges, whatever the registers held before, BTR holds exactly the five
\* fields of read_timing and BWTR exactly the five fields of write_timing.
C7_TimingRegisters ==
    (last.op = "new" /\ InRange(last.read_timing) /\ InRange(last.write_timing)) =>
        /\ Holds(btr, last.read_timing)
        /\ Holds(bwtr, last.write_timing)

\* a construction with in-range timings that differ in every field
C7_Witness ==
    /\ last.op = "new"
    /\ last.read_timing = Timing_new("A", 0, 1, 1, 15)
    /\ last.write_timing = Timing_new("C", 15, 255, 15, 0)
    /\ btr.datast = 1
    /\ bwtr.datast = 255

\* C10: after FsmcLcd::new, whatever the timings, BCR holds the fixed policy:
\* no burst read or write, extended mode on, 16-bit width, NOR/flash type,
\* no address/data multiplexing, wait signal ignored in synchronous and
\* asynchronous mode, write enabled, bank enabled.
C10_ControlRegisterPolicy ==
    (last.op = "new") =>
        /\ bcr.bursten = FALSE
        /\ bcr.cburstrw = FALSE
        /\ bcr.extmod = TRUE
        /\ bcr.mwid = "BITS16"
        /\ bcr.mtyp = "FLASH"
        /\ bcr.muxen = FALSE
        /\ bcr.waiten = FALSE
        /\ bcr.asyncwait = FALSE
        /\ bcr.wren = TRUE
        /\ bcr.mbken = TRUE

\* a second construction, with timings outside the ranges, has programmed BCR
C10_Witness ==
    /\ last.op = "new"
    /\ last.ctrl = 2
    /\ last.read_timing = Timing_new("D", 16, 0, 16, 0)
    /\ last.write_timing = Timing_new("B", 0, 1, 1, 15)
    /\ bcr.extmod = TRUE
    /\ bcr.mbken = TRUE

----------------------------------------------------------------------------
(* Specification of ownership: constructions over several wirings (two     *)
(* disjoint ones, one overlapping both, one with the strobes exchanged),   *)
(* traffic, release and drop.                                              *)

Wirings ==
    {Wiring(1), Wiring(21), Wiring(11), [Wiring(1) EXCEPT !.rd = 3, !.rw = 2]}

NextLife ==
    \/ \E w \in Wirings : New(w, Timing_default, Timing_default)
    \/ \E c \in Ids : WriteCommand(c, 42)
    \/ \E c \in Ids : WriteData(c, 42)
    \/ \E c \in Ids : SendCommands(c, [fmt |-> "U8", items |-> <<54>>])
    \/ \E c \in Ids : SendData(c, [fmt |-> "U16", items |-> <<42>>])
    \/ \E c \in Ids : Release(c)
    \/ \E c \in Ids : Drop(c)

SpecLife == Init /\ [][NextLife]_vars

\* C8: at most one controller is alive at any time, so the peripheral is
\* never reset or reprogrammed underneath a live controller.
C8_AtMostOneController == Cardinality(Alive) <= 1

\* C9: release() disables the peripheral clock and returns exactly the 20
\* handles the constructor was given, each in its position, back into the
\* caller's hands; it consumes the controller, which stays released; and
\* every store on the bus is made through a controller that is alive, that
\* is, constructed and not yet released.
C9_ReleaseReturnsLines ==
    [][/\ \A c \in Ids : (state[c] = "alive" /\ state'[c] = "released") =>
            /\ fsmc_en' = FALSE
            /\ last'.op = "release"
            /\ last'.ctrl = c
            /\ last'.ret.cs = given[c].cs
            /\ last'.ret.rd = given[c].rd
            /\ last'.ret.rw = given[c].rw
            /\ last'.ret.rs = given[c].rs
            /\ last'.ret.data_pins = given[c].data_pins
            /\ Len(last'.ret.data_pins) = 16
            /\ caller' = caller \cup PinsOf(given[c])
       /\ \A c \in Ids : (state[c] = "released") => (state'[c] = "released")
       /\ (bus' # bus) =>
            /\ last'.op \in {"write_command", "write_data", "send_commands", "send_data"}
            /\ state[last'.ctrl] = "alive"
            /\ state'[last'.ctrl] = "alive"
      ]_vars

\* a controller that wrote to the bus has been released and its 20 handles
\* are back with the caller
C9_Witness ==
    /\ last.op = "release"
    /\ state[last.ctrl] = "released"
    /\ Len(bus) > 0
    /\ fsmc_en = FALSE
    /\ last.ret = given[last.ctrl]
    /\ Cardinality(PinsOf(last.ret)) = 20
    /\ PinsOf(last.ret) \subseteq caller

----------------------------------------------------------------------------
(* Properties of the Timing value type, checked under SpecCfg *)

\* C11: Timing::default() returns access mode C, bus turnaround 15, data 255,
\* address hold 15 and address setup 15: each numeric field is the largest
\* value of its documented range (0-15, 1-255, 1-15, 0-15) and so lies
\* within it.
C11_DefaultIsSlowest ==
    (last.op = "Timing::default") =>
        /\ last.ret.access_mode = "C"
        /\ last.ret.bus_turnaround = 15
        /\ last.ret.data = 255
        /\ last.ret.address_hold = 15
        /\ last.ret.address_setup = 15
        /\ \A v \in 0..15 : v <= last.ret.bus_turnaround
        /\ \A v \in 1..255 : v <= last.ret.data
        /\ \A v \in 1..15 : v <= last.ret.address_hold
        /\ \A v \in 0..15 : v <= last.ret.address_setup
        /\ last.ret.bus_turnaround \in 0..15
        /\ last.ret.data \in 1..255
        /\ last.ret.address_hold \in 1..15
        /\ last.ret.address_setup \in 0..15

\* the default was taken while a controller built with other timings is alive
C11_Witness ==
    /\ last.op = "Timing::default"
    /\ last.ret.data = 255
    /\ state[1] = "alive"
    /\ btr.datast = 4

----------------------------------------------------------------------------
(* The two routings of the dispatcher compared, checked under Spec *)

\* the values of a sequence of stores, addresses left out
Values(t) == [k \in 1..Len(t) |-> t[k].value]

\* C12: send_commands and send_data are one dispatcher with two routings.
\* Whatever call was just made, the other operation, given the same payload
\* on the same bus, returns the same result and writes the same sequence of
\* values; a supported payload gives exactly one store per element (an empty
\* one gives none) and Ok, an unsupported one gives no store; and every store
\* of send_commands goes to the command address, every store of send_data to
\* the data address.
C12_SameDispatcher ==
    IsSend =>
        LET before == SubSeq(bus, 1, last.pre)
            c == send_commands(before, last.payload)
            d == send_data(before, last.payload)
            cw == SubSeq(c.bus, last.pre + 1, Len(c.bus))
            dw == SubSeq(d.bus, last.pre + 1, Len(d.bus))
            supported == last.payload.fmt \in
                {"U8", "U16", "U16BE", "U16LE", "U8Iter", "U16BEIter", "U16LEIter"}
        IN /\ (last.op = "send_commands") => (c.bus = bus /\ c.ret = last.ret)
           /\ (last.op = "send_data") => (d.bus = bus /\ d.ret = last.ret)
           /\ c.ret = d.ret
           /\ Values(cw) = Values(dw)
           /\ SubSeq(c.bus, 1, last.pre) = before
           /\ SubSeq(d.bus, 1, last.pre) = before
           /\ supported => (Len(Written) = Len(last.payload.items) /\ last.ret = "Ok")
           /\ (~supported) => (Len(Written) = 0 /\ last.ret = "DataFormatNotImplemented")
           /\ (last.payload.items = <<>>) => (Written = <<>>)
           /\ \A k \in 1..Len(cw) : cw[k].addr = COMMAND_ADDRESS
           /\ \A k \in 1..Len(dw) : dw[k].addr = DATA_ADDRESS
           /\ COMMAND_ADDRESS # DATA_ADDRESS

\* an iterator of one byte was sent as data right after the same byte was
\* sent as a command
C12_Witness ==
    /\ last.op = "send_data"
    /\ last.payload = [fmt |-> "U8Iter", items |-> <<165>>]
    /\ last.pre = 1
    /\ bus = <<[addr |-> COMMAND_ADDRESS, value |-> 165],
               [addr |-> DATA_ADDRESS, value |-> 165]>>

====
